---- MODULE Spec2Model ----
(***************************************************************************)
(* Model of the business ingestion pipeline of src/routes/scraper.js       *)
(* (class BusinessScraper): the lookup tables, the location validator, the *)
(* record normaliser and the orchestration loop scrapeBusinessesByTypes.   *)
(*                                                                         *)
(* JavaScript strings are sequences of one-character strings.  A value     *)
(* that may be absent (undefined) is None or Some(v).  A JavaScript value  *)
(* whose type is not fixed is a record tagged with its type (JsNumber,     *)
(* JsString, JsNull, JsFunction).                                          *)
(***************************************************************************)
EXTENDS Integers, Sequences, FiniteSets, TLC

VARIABLES
    municipality,   \* this.municipality, set by the constructor
    call,           \* the last call of a synchronous method: [op, arg, ret]
    pool,           \* scrapeBusinessesByTypes: TRUE when a pool is passed, FALSE for null
    db,             \* google_place_id of the rows of table businesses
    businessTypes,  \* scrapeBusinessesByTypes: the list of search terms
    typeIdx,        \* number of terms whose search has been requested
    places,         \* the list the search of the current term returned
    placeIdx,       \* number of candidates of places whose loop body has finished
    pc,             \* where the run is suspended
    allBusinesses,  \* the accumulated result list
    isDuplicate,    \* processBusiness: result of checkDuplicate
    locationCheck,  \* processBusiness: result of validateLocation, None before it
    description,    \* processBusiness: result of generateDescription
    now,            \* the clock read by new Date(), in elapsed delays
    steps,          \* log: the steps taken for the current candidate, in order
    queryOutcome,   \* log: the existence query of the current candidate
    genOutcome,     \* log: how the two generation calls of the current candidate ended
    searchLog,      \* log: the search requests issued, in order
    verdicts,       \* log: the verdicts of the checks, one entry per candidate
    dbOps,          \* log: the statements sent through pool.query, in order
    outstanding     \* the external calls requested and not yet replied to

----------------------------------------------------------------------------
(* Bounds of the explored inputs.                                          *)

MaxAddrLen == 4
MaxNameLen == 2
MaxIdLen == 2
MaxTerms == 3
MaxCandidates == 2

----------------------------------------------------------------------------
(* Optional values and tagged JavaScript values.                           *)

None == << >>
Some(v) == << v >>
IsSome(o) == Len(o) = 1
Get(o) == o[1]

JsNull == [t |-> "null"]
JsNumber(n) == [t |-> "number", n |-> n]
JsString(s) == [t |-> "string", s |-> s]
JsFunction(name) == [t |-> "function", name |-> name]

----------------------------------------------------------------------------
(* String primitives of the JavaScript runtime used by the scraper.        *)

UpperLetters ==
    <<"A", "B", "C", "D", "E", "F", "G", "H", "I", "J", "K", "L", "M",
      "N", "O", "P", "Q", "R", "S", "T", "U", "V", "W", "X", "Y", "Z", "É">>
LowerLetters ==
    <<"a", "b", "c", "d", "e", "f", "g", "h", "i", "j", "k", "l", "m",
      "n", "o", "p", "q", "r", "s", "t", "u", "v", "w", "x", "y", "z", "é">>
AsciiLower == {LowerLetters[i] : i \in 1..26}
Digits == {"0", "1", "2", "3", "4", "5", "6", "7", "8", "9"}
WhiteSpace == {" ", "\t"}

\* JavaScript passes arguments by value: v is evaluated once, then Op is
\* applied to the value
ByValue(Op(_), v) == CHOOSE r \in { Op(x) : x \in {v} } : TRUE

\* String.prototype.toLowerCase, one character
LowerChar(c) ==
    IF \E i \in DOMAIN UpperLetters : UpperLetters[i] = c
    THEN LowerLetters[CHOOSE i \in DOMAIN UpperLetters : UpperLetters[i] = c]
    ELSE c

\* String.prototype.toLowerCase
ToLowerCase(s) == ByValue(LAMBDA v : [i \in 1..Len(v) |-> LowerChar(v[i])], s)

\* String.prototype.substring(0, n)
Substring0(s, n) == SubSeq(s, 1, IF Len(s) < n THEN Len(s) ELSE n)

\* String.prototype.includes
Includes(s, sub) ==
    ByValue(LAMBDA v : \E i \in 1..(Len(v[1]) + 1) :
                          /\ i + Len(v[2]) - 1 <= Len(v[1])
                          /\ SubSeq(v[1], i, i + Len(v[2]) - 1) = v[2],
            << s, sub >>)

RECURSIVE TrimStart(_)
TrimStart(s) ==
    ByValue(LAMBDA v : IF v # << >> /\ Head(v) \in WhiteSpace
                       THEN TrimStart(Tail(v)) ELSE v, s)

RECURSIVE TrimEnd(_)
TrimEnd(s) ==
    ByValue(LAMBDA v : IF v # << >> /\ v[Len(v)] \in WhiteSpace
                       THEN TrimEnd(SubSeq(v, 1, Len(v) - 1))
                       ELSE v, s)

\* String.prototype.trim
Trim(s) == TrimEnd(TrimStart(s))

\* String.prototype.split(sep) for a one-character separator: the list of
\* the segments between separators, never empty
RECURSIVE SplitFrom(_, _, _)
SplitFrom(s, sep, cur) ==
    ByValue(LAMBDA v :
                IF v = << >> THEN << cur >>
                ELSE IF Head(v) = sep THEN << cur >> \o SplitFrom(Tail(v), sep, << >>)
                ELSE SplitFrom(Tail(v), sep, Append(cur, Head(v))), s)

Split(s, sep) == SplitFrom(s, sep, << >>)

\* arr[i] of a JavaScript array (0-based): absent past the end
At(arr, i) ==
    ByValue(LAMBDA v : IF i + 1 \in DOMAIN v THEN Some(v[i + 1]) ELSE None, arr)

\* o || dflt for an optional string: absent and "" are both falsy
OrElse(o, dflt) ==
    ByValue(LAMBDA v : IF IsSome(v) /\ Get(v) # << >> THEN Get(v) ELSE dflt, o)

\* String.prototype.replace(/_/g, ' ')
ReplaceUnderscores(s) ==
    ByValue(LAMBDA v : [i \in 1..Len(v) |-> IF v[i] = "_" THEN " " ELSE v[i]], s)

\* String.prototype.replace(/[^a-z0-9]+/g, '-'): every maximal run of
\* characters outside a-z, 0-9 becomes one hyphen
IsSlugAlnum(c) == c \in AsciiLower \cup Digits

RECURSIVE ReplaceNonAlnumRuns(_, _)
ReplaceNonAlnumRuns(s, inRun) ==
    ByValue(LAMBDA v :
                IF v = << >> THEN << >>
                ELSE IF IsSlugAlnum(Head(v))
                     THEN << Head(v) >> \o ReplaceNonAlnumRuns(Tail(v), FALSE)
                     ELSE (IF inRun THEN << >> ELSE << "-" >>)
                          \o ReplaceNonAlnumRuns(Tail(v), TRUE), s)

\* String.prototype.replace(/(^-|-$)/g, ''): one leading and one trailing
\* hyphen are removed
StripEdgeHyphens(s) ==
    ByValue(LAMBDA a : IF a # << >> /\ a[Len(a)] = "-"
                       THEN SubSeq(a, 1, Len(a) - 1) ELSE a,
            ByValue(LAMBDA v : IF v # << >> /\ Head(v) = "-" THEN Tail(v) ELSE v, s))

----------------------------------------------------------------------------
(* Property lookup in an object literal: own keys first, then the keys     *)
(* every object inherits from Object.prototype, else undefined.            *)

ObjectPrototypeKeys ==
    { <<"c", "o", "n", "s", "t", "r", "u", "c", "t", "o", "r">>,
      <<"t", "o", "S", "t", "r", "i", "n", "g">>,
      <<"v", "a", "l", "u", "e", "O", "f">>,
      <<"h", "a", "s", "O", "w", "n", "P", "r", "o", "p", "e", "r", "t", "y">> }

\* the key a property lookup uses: undefined is coerced to "undefined"
PropertyKey(o) == IF IsSome(o) THEN Get(o) ELSE <<"u", "n", "d", "e", "f", "i", "n", "e", "d">>

----------------------------------------------------------------------------
(* convertPriceLevel                                                       *)

priceLevelMap ==
    << [key |-> <<"P", "R", "I", "C", "E", "_", "L", "E", "V", "E", "L", "_", "F", "R", "E", "E">>, value |-> 0],
       [key |-> <<"P", "R", "I", "C", "E", "_", "L", "E", "V", "E", "L", "_", "I", "N", "E", "X", "P", "E", "N", "S", "I", "V", "E">>, value |-> 1],
       [key |-> <<"P", "R", "I", "C", "E", "_", "L", "E", "V", "E", "L", "_", "M", "O", "D", "E", "R", "A", "T", "E">>, value |-> 2],
       [key |-> <<"P", "R", "I", "C", "E", "_", "L", "E", "V", "E", "L", "_", "E", "X", "P", "E", "N", "S", "I", "V", "E">>, value |-> 3],
       [key |-> <<"P", "R", "I", "C", "E", "_", "L", "E", "V", "E", "L", "_", "V", "E", "R", "Y", "_", "E", "X", "P", "E", "N", "S", "I", "V", "E">>, value |-> 4] >>

\* priceLevelMap[priceLevel]
priceLevelLookup(priceLevel) ==
    LET k == PropertyKey(priceLevel)
    IN  IF \E i \in DOMAIN priceLevelMap : priceLevelMap[i].key = k
        THEN JsNumber(priceLevelMap[CHOOSE i \in DOMAIN priceLevelMap :
                                        priceLevelMap[i].key = k].value)
        ELSE IF k \in ObjectPrototypeKeys THEN JsFunction(k)
        ELSE [t |-> "undefined"]

\* a || b keeps a unless a is falsy (undefined, null, 0, "")
Truthy(v) ==
    /\ v.t \notin {"undefined", "null"}
    /\ v.t = "number" => v.n # 0
    /\ v.t = "string" => v.s # << >>

convertPriceLevel(priceLevel) ==
    LET v == priceLevelLookup(priceLevel)
    IN  IF Truthy(v) THEN v ELSE JsNull

----------------------------------------------------------------------------
(* categorizeType                                                          *)

categoryMap ==
    <<
       [key |-> <<"p", "l", "u", "m", "b", "e", "r">>, value |-> <<"H", "o", "m", "e", " ", "S", "e", "r", "v", "i", "c", "e", "s">>],
       [key |-> <<"e", "l", "e", "c", "t", "r", "i", "c", "i", "a", "n">>, value |-> <<"H", "o", "m", "e", " ", "S", "e", "r", "v", "i", "c", "e", "s">>],
       [key |-> <<"r", "o", "o", "f", "i", "n", "g", "_", "c", "o", "n", "t", "r", "a", "c", "t", "o", "r">>, value |-> <<"H", "o", "m", "e", " ", "S", "e", "r", "v", "i", "c", "e", "s">>],
       [key |-> <<"p", "a", "i", "n", "t", "e", "r">>, value |-> <<"H", "o", "m", "e", " ", "S", "e", "r", "v", "i", "c", "e", "s">>],
       [key |-> <<"g", "e", "n", "e", "r", "a", "l", "_", "c", "o", "n", "t", "r", "a", "c", "t", "o", "r">>, value |-> <<"H", "o", "m", "e", " ", "S", "e", "r", "v", "i", "c", "e", "s">>],
       [key |-> <<"l", "o", "c", "k", "s", "m", "i", "t", "h">>, value |-> <<"H", "o", "m", "e", " ", "S", "e", "r", "v", "i", "c", "e", "s">>],
       [key |-> <<"m", "o", "v", "i", "n", "g", "_", "c", "o", "m", "p", "a", "n", "y">>, value |-> <<"H", "o", "m", "e", " ", "S", "e", "r", "v", "i", "c", "e", "s">>],
       [key |-> <<"r", "e", "s", "t", "a", "u", "r", "a", "n", "t">>, value |-> <<"F", "o", "o", "d", " ", "&", " ", "D", "i", "n", "i", "n", "g">>],
       [key |-> <<"c", "a", "f", "e">>, value |-> <<"F", "o", "o", "d", " ", "&", " ", "D", "i", "n", "i", "n", "g">>],
       [key |-> <<"b", "a", "k", "e", "r", "y">>, value |-> <<"F", "o", "o", "d", " ", "&", " ", "D", "i", "n", "i", "n", "g">>],
       [key |-> <<"p", "i", "z", "z", "a", "_", "r", "e", "s", "t", "a", "u", "r", "a", "n", "t">>, value |-> <<"F", "o", "o", "d", " ", "&", " ", "D", "i", "n", "i", "n", "g">>],
       [key |-> <<"b", "a", "r">>, value |-> <<"F", "o", "o", "d", " ", "&", " ", "D", "i", "n", "i", "n", "g">>],
       [key |-> <<"m", "e", "a", "l", "_", "d", "e", "l", "i", "v", "e", "r", "y">>, value |-> <<"F", "o", "o", "d", " ", "&", " ", "D", "i", "n", "i", "n", "g">>],
       [key |-> <<"m", "e", "a", "l", "_", "t", "a", "k", "e", "a", "w", "a", "y">>, value |-> <<"F", "o", "o", "d", " ", "&", " ", "D", "i", "n", "i", "n", "g">>],
       [key |-> <<"d", "o", "c", "t", "o", "r">>, value |-> <<"H", "e", "a", "l", "t", "h", "c", "a", "r", "e">>],
       [key |-> <<"d", "e", "n", "t", "i", "s", "t">>, value |-> <<"H", "e", "a", "l", "t", "h", "c", "a", "r", "e">>],
       [key |-> <<"p", "h", "a", "r", "m", "a", "c", "y">>, value |-> <<"H", "e", "a", "l", "t", "h", "c", "a", "r", "e">>],
       [key |-> <<"p", "h", "y", "s", "i", "o", "t", "h", "e", "r", "a", "p", "i", "s", "t">>, value |-> <<"H", "e", "a", "l", "t", "h", "c", "a", "r", "e">>],
       [key |-> <<"v", "e", "t", "e", "r", "i", "n", "a", "r", "y", "_", "c", "a", "r", "e">>, value |-> <<"H", "e", "a", "l", "t", "h", "c", "a", "r", "e">>],
       [key |-> <<"h", "a", "i", "r", "_", "c", "a", "r", "e">>, value |-> <<"P", "e", "r", "s", "o", "n", "a", "l", " ", "C", "a", "r", "e">>],
       [key |-> <<"b", "e", "a", "u", "t", "y", "_", "s", "a", "l", "o", "n">>, value |-> <<"P", "e", "r", "s", "o", "n", "a", "l", " ", "C", "a", "r", "e">>],
       [key |-> <<"s", "p", "a">>, value |-> <<"P", "e", "r", "s", "o", "n", "a", "l", " ", "C", "a", "r", "e">>],
       [key |-> <<"g", "y", "m">>, value |-> <<"P", "e", "r", "s", "o", "n", "a", "l", " ", "C", "a", "r", "e">>],
       [key |-> <<"l", "a", "u", "n", "d", "r", "y">>, value |-> <<"P", "e", "r", "s", "o", "n", "a", "l", " ", "C", "a", "r", "e">>],
       [key |-> <<"s", "u", "p", "e", "r", "m", "a", "r", "k", "e", "t">>, value |-> <<"R", "e", "t", "a", "i", "l">>],
       [key |-> <<"c", "o", "n", "v", "e", "n", "i", "e", "n", "c", "e", "_", "s", "t", "o", "r", "e">>, value |-> <<"R", "e", "t", "a", "i", "l">>],
       [key |-> <<"h", "a", "r", "d", "w", "a", "r", "e", "_", "s", "t", "o", "r", "e">>, value |-> <<"R", "e", "t", "a", "i", "l">>],
       [key |-> <<"c", "l", "o", "t", "h", "i", "n", "g", "_", "s", "t", "o", "r", "e">>, value |-> <<"R", "e", "t", "a", "i", "l">>],
       [key |-> <<"s", "h", "o", "e", "_", "s", "t", "o", "r", "e">>, value |-> <<"R", "e", "t", "a", "i", "l">>],
       [key |-> <<"f", "l", "o", "r", "i", "s", "t">>, value |-> <<"R", "e", "t", "a", "i", "l">>],
       [key |-> <<"j", "e", "w", "e", "l", "r", "y", "_", "s", "t", "o", "r", "e">>, value |-> <<"R", "e", "t", "a", "i", "l">>],
       [key |-> <<"l", "a", "w", "y", "e", "r">>, value |-> <<"P", "r", "o", "f", "e", "s", "s", "i", "o", "n", "a", "l", " ", "S", "e", "r", "v", "i", "c", "e", "s">>],
       [key |-> <<"a", "c", "c", "o", "u", "n", "t", "i", "n", "g">>, value |-> <<"P", "r", "o", "f", "e", "s", "s", "i", "o", "n", "a", "l", " ", "S", "e", "r", "v", "i", "c", "e", "s">>],
       [key |-> <<"i", "n", "s", "u", "r", "a", "n", "c", "e", "_", "a", "g", "e", "n", "c", "y">>, value |-> <<"P", "r", "o", "f", "e", "s", "s", "i", "o", "n", "a", "l", " ", "S", "e", "r", "v", "i", "c", "e", "s">>],
       [key |-> <<"r", "e", "a", "l", "_", "e", "s", "t", "a", "t", "e", "_", "a", "g", "e", "n", "c", "y">>, value |-> <<"P", "r", "o", "f", "e", "s", "s", "i", "o", "n", "a", "l", " ", "S", "e", "r", "v", "i", "c", "e", "s">>],
       [key |-> <<"c", "a", "r", "_", "r", "e", "p", "a", "i", "r">>, value |-> <<"A", "u", "t", "o", "m", "o", "t", "i", "v", "e">>],
       [key |-> <<"c", "a", "r", "_", "w", "a", "s", "h">>, value |-> <<"A", "u", "t", "o", "m", "o", "t", "i", "v", "e">>],
       [key |-> <<"c", "a", "r", "_", "d", "e", "a", "l", "e", "r">>, value |-> <<"A", "u", "t", "o", "m", "o", "t", "i", "v", "e">>],
       [key |-> <<"g", "a", "s", "_", "s", "t", "a", "t", "i", "o", "n">>, value |-> <<"A", "u", "t", "o", "m", "o", "t", "i", "v", "e">>],
       [key |-> <<"b", "a", "n", "k">>, value |-> <<"F", "i", "n", "a", "n", "c", "i", "a", "l">>],
       [key |-> <<"a", "t", "m">>, value |-> <<"F", "i", "n", "a", "n", "c", "i", "a", "l">>],
       [key |-> <<"l", "o", "d", "g", "i", "n", "g">>, value |-> <<"H", "o", "s", "p", "i", "t", "a", "l", "i", "t", "y">>],
       [key |-> <<"s", "c", "h", "o", "o", "l">>, value |-> <<"E", "d", "u", "c", "a", "t", "i", "o", "n">>],
       [key |-> <<"l", "i", "b", "r", "a", "r", "y">>, value |-> <<"E", "d", "u", "c", "a", "t", "i", "o", "n">>]
    >>

\* categoryMap[type]
categoryLookup(type) ==
    LET k == PropertyKey(type)
    IN  IF \E i \in DOMAIN categoryMap : categoryMap[i].key = k
        THEN JsString(categoryMap[CHOOSE i \in DOMAIN categoryMap :
                                      categoryMap[i].key = k].value)
        ELSE IF k \in ObjectPrototypeKeys THEN JsFunction(k)
        ELSE [t |-> "undefined"]

Services == <<"S", "e", "r", "v", "i", "c", "e", "s">>

categorizeType(type) ==
    LET v == categoryLookup(type)
    IN  IF Truthy(v) THEN v ELSE JsString(Services)

----------------------------------------------------------------------------
(* validateLocation                                                        *)

ReasonPrefix == <<"B", "u", "s", "i", "n", "e", "s", "s", " ", "l", "o", "c", "a", "t", "e", "d", " ", "i", "n", " ">>
ReasonInfix == <<",", " ", "n", "o", "t", " ">>

\* validateLocation comparing without lower-casing
validateLocationCaseSensitive(formattedAddress, muni) ==
    LET addressParts == ByValue(LAMBDA parts : [i \in DOMAIN parts |-> Trim(parts[i])],
                                Split(formattedAddress, ","))
        cityStatePart == OrElse(At(addressParts, 1), << >>)
        cityMatch == Includes(cityStatePart, muni.name)
    IN  [isValid |-> cityMatch,
         detectedCity |-> cityStatePart,
         reason |-> IF cityMatch THEN None
                    ELSE Some(ReasonPrefix \o cityStatePart \o ReasonInfix \o muni.name)]

\* validateLocation reading the first segment instead of the second
validateLocationFirstSegment(formattedAddress, muni) ==
    LET addressParts == ByValue(LAMBDA parts : [i \in DOMAIN parts |-> Trim(parts[i])],
                                Split(formattedAddress, ","))
        cityStatePart == OrElse(At(addressParts, 0), << >>)
        cityMatch == Includes(ToLowerCase(cityStatePart), ToLowerCase(muni.name))
    IN  [isValid |-> cityMatch,
         detectedCity |-> cityStatePart,
         reason |-> IF cityMatch THEN None
                    ELSE Some(ReasonPrefix \o cityStatePart \o ReasonInfix \o muni.name)]

validateLocation(formattedAddress, muni) ==
    LET addressParts == ByValue(LAMBDA parts : [i \in DOMAIN parts |-> Trim(parts[i])],
                                Split(formattedAddress, ","))
        cityStatePart == OrElse(At(addressParts, 1), << >>)
        cityMatch == Includes(ToLowerCase(cityStatePart), ToLowerCase(muni.name))
    IN  [isValid |-> cityMatch,
         detectedCity |-> cityStatePart,
         reason |-> IF cityMatch THEN None
                    ELSE Some(ReasonPrefix \o cityStatePart \o ReasonInfix \o muni.name)]

----------------------------------------------------------------------------
(* The synchronous parts of processBusiness: the values derived from the   *)
(* candidate before the checks, and the record built after enrichment.     *)

NameMaxLen == 255
StateMaxLen == 20
ZipMaxLen == 10
IdPrefixLen == 8

Unknown == <<"U", "n", "k", "n", "o", "w", "n">>
Pending == <<"p", "e", "n", "d", "i", "n", "g">>
Business == <<"b", "u", "s", "i", "n", "e", "s", "s">>

\* nameOf without the fallback
nameOfNoFallback(place) ==
    IF IsSome(place.displayName) THEN Get(place.displayName) ELSE << >>

\* place.displayName?.text || 'Unknown'
nameOf(place) == OrElse(place.displayName, Unknown)

\* place.primaryType?.replace(/_/g, ' ') || 'business'
businessTypeOf(place) ==
    OrElse(IF IsSome(place.primaryType)
           THEN Some(ReplaceUnderscores(Get(place.primaryType)))
           ELSE None,
           Business)

\* place.formattedAddress || ''
addressOf(place) == OrElse(place.formattedAddress, << >>)

\* v || null for an optional string
StringOrNull(o) ==
    IF IsSome(o) /\ Get(o) # << >> THEN JsString(Get(o)) ELSE JsNull

\* v || null and v || 0 for an optional number
NumberOrNull(o) == IF IsSome(o) /\ Get(o) # 0 THEN JsNumber(Get(o)) ELSE JsNull
NumberOrZero(o) == IF IsSome(o) THEN Get(o) ELSE 0

\* v || null for an optional opaque object
ObjectOrNull(o) == IF IsSome(o) THEN [t |-> "object", ref |-> Get(o)] ELSE JsNull

\* slugOf appending the whole identifier instead of its first 8 characters
slugOfFullId(name, id) ==
    StripEdgeHyphens(ReplaceNonAlnumRuns(ToLowerCase(name), FALSE))
        \o << "-" >> \o id

\* the slug expression of the record literal
slugOf(name, id) ==
    StripEdgeHyphens(ReplaceNonAlnumRuns(ToLowerCase(name), FALSE))
        \o << "-" >> \o Substring0(id, IdPrefixLen)

\* place.id.substring(0, 8) raises a TypeError when place.id is undefined
NormalizeRaises(place) == ~IsSome(place.id)

\* BuildRecord deriving the slug from the clock as well
BuildRecordTimedSlug(place, muni, desc, kws, at) ==
    LET name == nameOf(place)
        businessType == businessTypeOf(place)
        address == addressOf(place)
        addressParts == Split(address, ",")
        street == OrElse(IF IsSome(At(addressParts, 0))
                         THEN Some(Trim(Get(At(addressParts, 0)))) ELSE None, << >>)
        zip == OrElse(IF IsSome(At(addressParts, 2))
                      THEN Some(Trim(Get(At(addressParts, 2)))) ELSE None, << >>)
    IN  [google_place_id |-> Get(place.id),
         name |-> Substring0(name, NameMaxLen),
         slug |-> slugOf(name, Get(place.id)) \o (IF at = 0 THEN << >> ELSE << "-", "1" >>),
         category |-> categorizeType(place.primaryType),
         subcategory |-> businessType,
         description |-> desc,
         street |-> street,
         city |-> muni.name,
         state |-> Substring0(muni.state, StateMaxLen),
         zip |-> Substring0(zip, ZipMaxLen),
         phone |-> StringOrNull(place.nationalPhoneNumber),
         website |-> StringOrNull(place.websiteUri),
         google_maps_url |-> StringOrNull(place.googleMapsUri),
         latitude |-> IF IsSome(place.location)
                      THEN NumberOrNull(Get(place.location).latitude) ELSE JsNull,
         longitude |-> IF IsSome(place.location)
                       THEN NumberOrNull(Get(place.location).longitude) ELSE JsNull,
         rating |-> NumberOrNull(place.rating),
         total_ratings |-> NumberOrZero(place.userRatingCount),
         price_level |-> convertPriceLevel(place.priceLevel),
         opening_hours |-> ObjectOrNull(place.regularOpeningHours),
         keywords |-> kws,
         status |-> Pending,
         scraped_at |-> at]

\* BuildRecord taking the city from the address (the unused cityState)
BuildRecordParsedCity(place, muni, desc, kws, at) ==
    LET name == nameOf(place)
        businessType == businessTypeOf(place)
        address == addressOf(place)
        addressParts == Split(address, ",")
        street == OrElse(IF IsSome(At(addressParts, 0))
                         THEN Some(Trim(Get(At(addressParts, 0)))) ELSE None, << >>)
        zip == OrElse(IF IsSome(At(addressParts, 2))
                      THEN Some(Trim(Get(At(addressParts, 2)))) ELSE None, << >>)
    IN  [google_place_id |-> Get(place.id),
         name |-> Substring0(name, NameMaxLen),
         slug |-> slugOf(name, Get(place.id)),
         category |-> categorizeType(place.primaryType),
         subcategory |-> businessType,
         description |-> desc,
         street |-> street,
         city |-> OrElse(IF IsSome(At(addressParts, 1))
                         THEN Some(Trim(Get(At(addressParts, 1)))) ELSE None, muni.name),
         state |-> Substring0(muni.state, StateMaxLen),
         zip |-> Substring0(zip, ZipMaxLen),
         phone |-> StringOrNull(place.nationalPhoneNumber),
         website |-> StringOrNull(place.websiteUri),
         google_maps_url |-> StringOrNull(place.googleMapsUri),
         latitude |-> IF IsSome(place.location)
                      THEN NumberOrNull(Get(place.location).latitude) ELSE JsNull,
         longitude |-> IF IsSome(place.location)
                       THEN NumberOrNull(Get(place.location).longitude) ELSE JsNull,
         rating |-> NumberOrNull(place.rating),
         total_ratings |-> NumberOrZero(place.userRatingCount),
         price_level |-> convertPriceLevel(place.priceLevel),
         opening_hours |-> ObjectOrNull(place.regularOpeningHours),
         keywords |-> kws,
         status |-> Pending,
         scraped_at |-> at]

\* the record literal returned by processBusiness
BuildRecord(place, muni, desc, kws, at) ==
    LET name == nameOf(place)
        businessType == businessTypeOf(place)
        address == addressOf(place)
        addressParts == Split(address, ",")
        street == OrElse(IF IsSome(At(addressParts, 0))
                         THEN Some(Trim(Get(At(addressParts, 0)))) ELSE None, << >>)
        zip == OrElse(IF IsSome(At(addressParts, 2))
                      THEN Some(Trim(Get(At(addressParts, 2)))) ELSE None, << >>)
    IN  [google_place_id |-> Get(place.id),
         name |-> Substring0(name, NameMaxLen),
         slug |-> slugOf(name, Get(place.id)),
         category |-> categorizeType(place.primaryType),
         subcategory |-> businessType,
         description |-> desc,
         street |-> street,
         city |-> muni.name,
         state |-> Substring0(muni.state, StateMaxLen),
         zip |-> Substring0(zip, ZipMaxLen),
         phone |-> StringOrNull(place.nationalPhoneNumber),
         website |-> StringOrNull(place.websiteUri),
         google_maps_url |-> StringOrNull(place.googleMapsUri),
         latitude |-> IF IsSome(place.location)
                      THEN NumberOrNull(Get(place.location).latitude) ELSE JsNull,
         longitude |-> IF IsSome(place.location)
                       THEN NumberOrNull(Get(place.location).longitude) ELSE JsNull,
         rating |-> NumberOrNull(place.rating),
         total_ratings |-> NumberOrZero(place.userRatingCount),
         price_level |-> convertPriceLevel(place.priceLevel),
         opening_hours |-> ObjectOrNull(place.regularOpeningHours),
         keywords |-> kws,
         status |-> Pending,
         scraped_at |-> at]

----------------------------------------------------------------------------
(* Inputs of the synchronous methods.                                      *)

Strings(alphabet, n) == UNION { [1..k -> alphabet] : k \in 0..n }

FairLawn == [name |-> <<"F", "a", "i", "r", " ", "L", "a", "w", "n">>, state |-> <<"N", "J">>]
SmallTown == [name |-> <<"a", "B">>, state |-> <<"N", "J">>]
LongState == [name |-> <<"F", "a", "i", "r", " ", "L", "a", "w", "n">>,
              state |-> <<"N", "e", "w", " ", "J", "e", "r", "s", "e", "y", " ", "(", "G", "a", "r", "d", "e", "n", " ", "S", "t", "a", "t", "e", ")">>]
Municipalities == {FairLawn, SmallTown, LongState}

Addr123Main == <<"1", "2", "3", " ", "M", "a", "i", "n", " ", "S", "t", ",", " ", "F", "a", "i", "r", " ", "L", "a", "w", "n", ",", " ", "N", "J", " ", "0", "7", "4", "1", "0", ",", " ", "U", "S", "A">>
Addr50Oak == <<"5", "0", " ", "O", "a", "k", " ", "A", "v", "e", ",", " ", "P", "a", "r", "a", "m", "u", "s", ",", " ", "N", "J", " ", "0", "7", "6", "5", "2", ",", " ", "U", "S", "A">>
Addr10Main == <<"1", "0", " ", "M", "a", "i", "n", " ", "S", "t", ",", " ", "F", "a", "i", "r", " ", "L", "a", "w", "n", ",", " ", "N", "J", " ", "0", "7", "4", "1", "0", ",", " ", "U", "S", "A">>

AddrAlphabet == {"a", "A", "b", ",", " "}
Addresses ==
    Strings(AddrAlphabet, MaxAddrLen) \cup {Addr123Main, Addr50Oak, Addr10Main}

PriceLabels ==
    {None} \cup { Some(priceLevelMap[i].key) : i \in DOMAIN priceLevelMap }
           \cup { Some(<< >>), Some(<<"P", "R", "I", "C", "E", "_", "L", "E", "V", "E", "L", "_", "U", "N", "S", "P", "E", "C", "I", "F", "I", "E", "D">>) }

TypeLabels ==
    {None} \cup { Some(categoryMap[i].key) : i \in DOMAIN categoryMap }
           \cup { Some(k) : k \in ObjectPrototypeKeys }
           \cup { Some(<< >>), Some(<<"z", "o", "o">>), Some(<<"B", "a", "k", "e", "r", "y">>) }

NameAlphabet == {"a", "A", "1", "-", "'", "é"}
Names == {None} \cup { Some(n) : n \in Strings(NameAlphabet, MaxNameLen) }
              \cup { Some(<<"J", "o", "e", "'", "s", " ", "B", "a", "k", "e", "r", "y">>) }

IdAlphabet == {"a", "B", "_"}
Ids == { Some(i) : i \in Strings(IdAlphabet, MaxIdLen) \ { << >> } }
           \cup { None, Some(<<"a", "b", "c", "d", "1", "2", "3", "4", "x", "y", "z">>), Some(<<"C", "h", "I", "J", "N", "1", "t", "_", "t", "D", "e", "u", "E", "m", "s", "R">>) }

\* a candidate with only the given fields present
Place(id, displayName, formattedAddress, primaryType) ==
    [id |-> id, displayName |-> displayName,
     formattedAddress |-> formattedAddress, primaryType |-> primaryType,
     priceLevel |-> None, rating |-> None, userRatingCount |-> None,
     location |-> None, regularOpeningHours |-> None,
     nationalPhoneNumber |-> None, websiteUri |-> None, googleMapsUri |-> None]

\* an address of the vendor's usual shape inside the municipality
AddressIn(muni) == <<"1", " ", "A", " ", "S", "t", ",", " ">> \o muni.name \o <<",", " ", "N", "J", " ", "0", "7", "4", "1", "0", ",", " ", "U", "S", "A">>

DescriptionText == <<"A", " ", "b", "a", "k", "e", "r", "y", ".">>
KeywordsText == <<"b", "a", "k", "e", "r", "y", ",", " ", "f", "a", "i", "r", " ", "l", "a", "w", "n">>

\* message.content[0].text of a keyword reply, split on commas and trimmed
keywordsOf(keywordsText) ==
    ByValue(LAMBDA parts : [i \in DOMAIN parts |-> Trim(parts[i])],
            Split(keywordsText, ","))

----------------------------------------------------------------------------
(* The synchronous methods called once on an input: SpecPure.              *)

Idle == [op |-> "idle"]

pipelineVars ==
    << pool, db, businessTypes, typeIdx, places, placeIdx, pc, allBusinesses,
       isDuplicate, locationCheck, description, now, steps, queryOutcome,
       genOutcome, searchLog, verdicts, dbOps, outstanding >>

NoGeneration == [description |-> "none", keywords |-> "none"]

\* no run of scrapeBusinessesByTypes has been started
PipelineIdle ==
    /\ pool = FALSE /\ db = {}
    /\ businessTypes = << >> /\ typeIdx = 0
    /\ places = << >> /\ placeIdx = 0
    /\ pc = "idle"
    /\ allBusinesses = << >>
    /\ isDuplicate = FALSE /\ locationCheck = None /\ description = JsNull
    /\ now = 0
    /\ steps = << >> /\ queryOutcome = "none" /\ genOutcome = NoGeneration
    /\ searchLog = << >> /\ verdicts = << >>
    /\ dbOps = << >> /\ outstanding = {}

InitPure ==
    /\ municipality \in Municipalities
    /\ call = Idle
    /\ PipelineIdle

CallConvertPriceLevel ==
    /\ call = Idle
    /\ \E p \in PriceLabels :
         call' = [op |-> "convertPriceLevel", arg |-> p, ret |-> convertPriceLevel(p)]
    /\ UNCHANGED << municipality, pipelineVars >>

CallCategorizeType ==
    /\ call = Idle
    /\ \E ty \in TypeLabels :
         call' = [op |-> "categorizeType", arg |-> ty, ret |-> categorizeType(ty)]
    /\ UNCHANGED << municipality, pipelineVars >>

CallValidateLocation ==
    /\ call = Idle
    /\ \E a \in Addresses :
         call' = [op |-> "validateLocation", arg |-> a,
                  ret |-> validateLocation(a, municipality)]
    /\ UNCHANGED << municipality, pipelineVars >>

\* processBusiness on a candidate that passed both checks, with the
\* enrichment replies given
CallNormalize ==
    /\ call = Idle
    /\ \E n \in Names, i \in Ids :
         LET place == Place(i, n, Some(AddressIn(municipality)), None)
         IN  /\ validateLocation(addressOf(place), municipality).isValid
             /\ call' = [op |-> "processBusiness", arg |-> place,
                         ret |-> IF NormalizeRaises(place)
                                 THEN [t |-> "TypeError"]
                                 ELSE [t |-> "record",
                                       record |-> BuildRecord(place, municipality,
                                                     JsString(DescriptionText),
                                                     keywordsOf(KeywordsText), 0)]]
    /\ UNCHANGED << municipality, pipelineVars >>

\* a candidate with every field present
FullPlace(muni) ==
    [id |-> Some(<<"a", "b", "c", "d", "1", "2", "3", "4", "x", "y", "z">>),
     displayName |-> Some(<<"J", "o", "e", "'", "s", " ", "B", "a", "k", "e", "r", "y">>),
     formattedAddress |-> Some(AddressIn(muni)),
     primaryType |-> Some(<<"p", "i", "z", "z", "a", "_", "r", "e", "s", "t", "a", "u", "r", "a", "n", "t">>),
     priceLevel |-> Some(<<"P", "R", "I", "C", "E", "_", "L", "E", "V", "E", "L", "_", "M", "O", "D", "E", "R", "A", "T", "E">>),
     rating |-> Some(4), userRatingCount |-> Some(12),
     location |-> Some([latitude |-> Some(40), longitude |-> Some(-74)]),
     regularOpeningHours |-> Some("hours"),
     nationalPhoneNumber |-> Some(<<"2", "0", "1", "-", "5", "5", "5", "-", "0", "1", "0", "0">>),
     websiteUri |-> Some(<<"j", "o", "e", "s", ".", "e", "x", "a", "m", "p", "l", "e">>),
     googleMapsUri |-> Some(<<"m", "a", "p", "s", ".", "g", "o", "o", "g", "l", "e", ".", "c", "o", "m", "/", "?", "c", "i", "d", "=", "1">>)]

OptionalFields ==
    { "displayName", "primaryType", "priceLevel", "rating", "userRatingCount",
      "location", "regularOpeningHours", "nationalPhoneNumber", "websiteUri",
      "googleMapsUri" }

\* p as the vendor returns it when the fields of absent are missing
Without(p, absent) == [f \in DOMAIN p |-> IF f \in absent THEN None ELSE p[f]]

\* processBusiness on a candidate that has an identifier and an address in
\* the municipality and lacks any set of the other fields
CallNormalizeSparse ==
    /\ call = Idle
    /\ \E absent \in SUBSET OptionalFields :
         LET sparse == Without(FullPlace(municipality), absent)
         IN  call' = [op |-> "processBusiness", arg |-> sparse,
                      ret |-> IF NormalizeRaises(sparse)
                              THEN [t |-> "TypeError"]
                              ELSE [t |-> "record",
                                    record |-> BuildRecord(sparse, municipality,
                                                  JsString(DescriptionText),
                                                  keywordsOf(KeywordsText), 0)]]
    /\ UNCHANGED << municipality, pipelineVars >>

\* the readings of the clock at a second run: the same instant or a later one
LaterInstants == {0, 1}

\* processBusiness run a second time on the same candidate with the same
\* enrichment replies
CallNormalizeAgain ==
    /\ call.op = "processBusiness"
    /\ call.ret.t = "record"
    /\ \E at \in LaterInstants :
         call' = [op |-> "processBusinessAgain", arg |-> call.arg,
                  first |-> call.ret.record,
                  ret |-> [t |-> "record",
                           record |-> BuildRecord(call.arg, municipality,
                                         JsString(DescriptionText),
                                         keywordsOf(KeywordsText), at)]]
    /\ UNCHANGED << municipality, pipelineVars >>

\* addresses that pass validateLocation for muni and differ in their text
ValidAddresses(muni) ==
    { AddressIn(muni),
      <<"9", " ", "B", " ", "R", "d", ",">> \o ToLowerCase(muni.name) \o <<" ", "n", "j", " ", ",", "0", "7", "4", "1", "1", "-", "1", "2", "3", "4", "5", "6", "7", ",", " ", "U", "S", "A">>,
      <<"5", " ", "C", " ", "A", "v", "e", ",", " ">> \o muni.name }

\* processBusiness on two candidates that differ only in formattedAddress
CallNormalizePair ==
    /\ call = Idle
    /\ \E a1, a2 \in ValidAddresses(municipality) :
         LET p1 == [FullPlace(municipality) EXCEPT !.formattedAddress = Some(a1)]
             p2 == [FullPlace(municipality) EXCEPT !.formattedAddress = Some(a2)]
         IN  /\ a1 # a2
             /\ validateLocation(a1, municipality).isValid
             /\ validateLocation(a2, municipality).isValid
             /\ call' = [op |-> "processBusinessPair", arg |-> << p1, p2 >>,
                         ret |-> << BuildRecord(p1, municipality,
                                        JsString(DescriptionText),
                                        keywordsOf(KeywordsText), 0),
                                    BuildRecord(p2, municipality,
                                        JsString(DescriptionText),
                                        keywordsOf(KeywordsText), 0) >>]
    /\ UNCHANGED << municipality, pipelineVars >>

NextPure ==
    \/ CallNormalizeSparse
    \/ CallNormalizeAgain
    \/ CallNormalizePair
    \/ CallConvertPriceLevel
    \/ CallCategorizeType
    \/ CallValidateLocation
    \/ CallNormalize

vars == << municipality, call, pipelineVars >>

SpecPure == InitPure /\ [][NextPure]_vars

----------------------------------------------------------------------------
(* scrapeBusinessesByTypes and processBusiness: Spec.  The run is          *)
(* suspended at every await; one action is one continuation, from the      *)
(* reply it awaited to the next request it sends.                          *)

AllTerms ==
    << <<"b", "a", "k", "e", "r", "y">>,
       <<"p", "l", "u", "m", "b", "e", "r">>,
       <<"c", "a", "f", "e">>,
       <<"d", "e", "n", "t", "i", "s", "t">> >>

JoesBakery ==
    [id |-> Some(<<"a", "b", "c", "d", "1", "2", "3", "4", "x", "y", "z">>),
     displayName |-> Some(<<"J", "o", "e", "'", "s", " ", "B", "a", "k", "e", "r", "y">>),
     formattedAddress |-> Some(Addr10Main),
     primaryType |-> Some(<<"b", "a", "k", "e", "r", "y">>),
     priceLevel |-> Some(<<"P", "R", "I", "C", "E", "_", "L", "E", "V", "E", "L", "_", "M", "O", "D", "E", "R", "A", "T", "E">>),
     rating |-> Some(4), userRatingCount |-> Some(12),
     location |-> Some([latitude |-> Some(40), longitude |-> Some(-74)]),
     regularOpeningHours |-> Some("hours"),
     nationalPhoneNumber |-> Some(<<"2", "0", "1", "-", "5", "5", "5", "-", "0", "1", "0", "0">>),
     websiteUri |-> None,
     googleMapsUri |-> Some(<<"m", "a", "p", "s", ".", "g", "o", "o", "g", "l", "e", ".", "c", "o", "m", "/", "?", "c", "i", "d", "=", "1">>)]

OakCafe ==
    Place(Some(<<"o", "a", "k", "0", "0", "0", "0", "1">>), Some(<<"O", "a", "k", " ", "C", "a", "f", "e">>), Some(Addr50Oak), Some(<<"c", "a", "f", "e">>))

\* a candidate the vendor returned without places.id
NoIdPlace == Place(None, Some(<<"M", "a", "i", "n", " ", "D", "e", "l", "i">>), Some(Addr123Main), None)

Catalogue == {JoesBakery, OakCafe, NoIdPlace}

\* the lists a search may return while the candidate budget lasts
CandidateLists(budget) == UNION { [1..k -> Catalogue] : k \in 0..budget }

\* textQuery of the search request
textQueryOf(businessType, muni) ==
    businessType \o <<" ", "i", "n", " ">> \o muni.name \o <<",", " ">> \o muni.state

\* the candidate whose loop body is running
place == places[placeIdx + 1]

Init ==
    /\ municipality = FairLawn
    /\ call = Idle
    /\ pool \in BOOLEAN
    /\ db \in { {}, {Get(JoesBakery.id)} }
    /\ businessTypes \in { SubSeq(AllTerms, 1, n) : n \in 0..MaxTerms }
    /\ typeIdx = 0
    /\ places = << >> /\ placeIdx = 0
    /\ pc = "loop"
    /\ allBusinesses = << >>
    /\ isDuplicate = FALSE /\ locationCheck = None /\ description = JsNull
    /\ now = 0
    /\ steps = << >> /\ queryOutcome = "none" /\ genOutcome = NoGeneration
    /\ searchLog = << >> /\ verdicts = << >>
    /\ dbOps = << >> /\ outstanding = {}

\* Collect dropping a record whose description is null
CollectOnlyDescribed(all, business) ==
    IF business # JsNull /\ business.record.description # JsNull
    THEN Append(all, business.record)
    ELSE all

\* if (business !== null) allBusinesses.push(business)
Collect(all, business) ==
    IF business # JsNull THEN Append(all, business.record) ELSE all

\* for (const type of businessTypes): the next term's search is requested
SearchBusinesses ==
    /\ pc = "loop" /\ placeIdx = Len(places) /\ typeIdx < Len(businessTypes)
    /\ typeIdx' = typeIdx + 1
    /\ searchLog' = Append(searchLog,
           [textQuery |-> textQueryOf(businessTypes[typeIdx + 1], municipality),
            outcome |-> "pending", found |-> << >>])
    /\ pc' = "search"
    /\ UNCHANGED << municipality, call, pool, db, businessTypes, places, placeIdx,
                    allBusinesses, isDuplicate, locationCheck, description, now,
                    steps, queryOutcome, genOutcome, verdicts >>
    /\ outstanding' = outstanding \cup {"search"}
    /\ UNCHANGED dbOps

\* the search replied: response.data.places || []
SearchReturns ==
    /\ pc = "search"
    /\ \E list \in CandidateLists(MaxCandidates - Len(verdicts)) :
           /\ places' = list
           /\ searchLog' = [searchLog EXCEPT ![Len(searchLog)].outcome = "ok",
                                             ![Len(searchLog)].found = list]
    /\ placeIdx' = 0
    /\ pc' = "loop"
    /\ UNCHANGED << municipality, call, pool, db, businessTypes, typeIdx,
                    allBusinesses, isDuplicate, locationCheck, description, now,
                    steps, queryOutcome, genOutcome, verdicts >>
    /\ outstanding' = outstanding \ {"search"}
    /\ UNCHANGED dbOps

\* SearchFails without the catch block: the error reaches the caller
SearchFailsRaises ==
    /\ pc = "search"
    /\ searchLog' = [searchLog EXCEPT ![Len(searchLog)].outcome = "error"]
    /\ pc' = "raised"
    /\ UNCHANGED << municipality, call, pool, db, businessTypes, typeIdx, places,
                    placeIdx, allBusinesses, isDuplicate, locationCheck,
                    description, now, steps, queryOutcome, genOutcome, verdicts >>
    /\ outstanding' = outstanding \ {"search"}
    /\ UNCHANGED dbOps

\* the search request failed: the catch block returns []
SearchFails ==
    /\ pc = "search"
    /\ places' = << >>
    /\ placeIdx' = 0
    /\ searchLog' = [searchLog EXCEPT ![Len(searchLog)].outcome = "error"]
    /\ pc' = "loop"
    /\ UNCHANGED << municipality, call, pool, db, businessTypes, typeIdx,
                    allBusinesses, isDuplicate, locationCheck, description, now,
                    steps, queryOutcome, genOutcome, verdicts >>
    /\ outstanding' = outstanding \ {"search"}
    /\ UNCHANGED dbOps

\* for (const place of places): processBusiness starts and calls
\* checkDuplicate, which returns false at once without a pool
BeginCandidate ==
    /\ pc = "loop" /\ placeIdx < Len(places)
    /\ steps' = << "checkDuplicate" >>
    /\ locationCheck' = None
    /\ description' = JsNull
    /\ genOutcome' = NoGeneration
    /\ isDuplicate' = FALSE
    /\ IF pool
       THEN /\ queryOutcome' = "pending" /\ pc' = "query"
            /\ dbOps' = Append(dbOps, [statement |-> "SELECT", param |-> place.id,
                                       term |-> typeIdx, index |-> placeIdx + 1])
            /\ outstanding' = outstanding \cup {"query"}
       ELSE /\ queryOutcome' = "none" /\ pc' = "checked"
            /\ UNCHANGED << dbOps, outstanding >>
    /\ UNCHANGED << municipality, call, pool, db, businessTypes, typeIdx, places,
                    placeIdx, allBusinesses, now, searchLog, verdicts >>

\* rows of SELECT id FROM businesses WHERE google_place_id = $1
rowsFor(googlePlaceId) ==
    IF IsSome(googlePlaceId) /\ Get(googlePlaceId) \in db THEN 1 ELSE 0

\* QueryReturns storing the identifier it looked up
QueryReturnsRemembers ==
    /\ pc = "query"
    /\ isDuplicate' = (rowsFor(place.id) > 0)
    /\ queryOutcome' = "ok"
    /\ pc' = "checked"
    /\ UNCHANGED << municipality, call, pool, businessTypes, typeIdx, places,
                    placeIdx, allBusinesses, locationCheck, description, now,
                    steps, genOutcome, searchLog, verdicts >>
    /\ outstanding' = outstanding \ {"query"}
    /\ UNCHANGED dbOps
    /\ db' = db \cup (IF IsSome(place.id) THEN {Get(place.id)} ELSE {})

\* the existence query replied: result.rows.length > 0
QueryReturns ==
    /\ pc = "query"
    /\ isDuplicate' = (rowsFor(place.id) > 0)
    /\ queryOutcome' = "ok"
    /\ pc' = "checked"
    /\ UNCHANGED << municipality, call, pool, db, businessTypes, typeIdx, places,
                    placeIdx, allBusinesses, locationCheck, description, now,
                    steps, genOutcome, searchLog, verdicts >>
    /\ outstanding' = outstanding \ {"query"}
    /\ UNCHANGED dbOps

\* QueryFails failing closed: the catch block returns true
QueryFailsClosed ==
    /\ pc = "query"
    /\ isDuplicate' = TRUE
    /\ queryOutcome' = "error"
    /\ pc' = "checked"
    /\ UNCHANGED << municipality, call, pool, db, businessTypes, typeIdx, places,
                    placeIdx, allBusinesses, locationCheck, description, now,
                    steps, genOutcome, searchLog, verdicts >>
    /\ outstanding' = outstanding \ {"query"}
    /\ UNCHANGED dbOps

\* the existence query failed: the catch block returns false
QueryFails ==
    /\ pc = "query"
    /\ isDuplicate' = FALSE
    /\ queryOutcome' = "error"
    /\ pc' = "checked"
    /\ UNCHANGED << municipality, call, pool, db, businessTypes, typeIdx, places,
                    placeIdx, allBusinesses, locationCheck, description, now,
                    steps, genOutcome, searchLog, verdicts >>
    /\ outstanding' = outstanding \ {"query"}
    /\ UNCHANGED dbOps

\* AfterCheckDuplicate without the return on an invalid location
AfterCheckDuplicateNoLocationGate ==
    /\ pc = "checked"
    /\ IF isDuplicate
       THEN /\ verdicts' = Append(verdicts,
                   [place |-> place, duplicate |-> TRUE, valid |-> None])
            /\ allBusinesses' = Collect(allBusinesses, JsNull)
            /\ pc' = "delay"
            /\ UNCHANGED << locationCheck, steps, outstanding >>
       ELSE LET check == validateLocation(addressOf(place), municipality)
            IN  /\ locationCheck' = Some(check)
                /\ verdicts' = Append(verdicts,
                       [place |-> place, duplicate |-> FALSE,
                        valid |-> Some(check.isValid)])
                /\ steps' = steps \o << "validateLocation", "generateDescription" >>
                /\ allBusinesses' = allBusinesses
                /\ outstanding' = outstanding \cup {"generateDescription"}
                /\ pc' = "genDescription"
    /\ UNCHANGED << municipality, call, pool, db, businessTypes, typeIdx, places,
                    placeIdx, isDuplicate, description, now, queryOutcome,
                    genOutcome, searchLog >>
    /\ UNCHANGED dbOps

\* AfterCheckDuplicate going to the next candidate at once after a duplicate
AfterCheckDuplicateNoDelay ==
    /\ pc = "checked"
    /\ IF isDuplicate
       THEN /\ verdicts' = Append(verdicts,
                   [place |-> place, duplicate |-> TRUE, valid |-> None])
            /\ allBusinesses' = Collect(allBusinesses, JsNull)
            /\ placeIdx' = placeIdx + 1
            /\ pc' = "loop"
            /\ UNCHANGED << locationCheck, steps, outstanding >>
       ELSE LET check == validateLocation(addressOf(place), municipality)
            IN  /\ locationCheck' = Some(check)
                /\ placeIdx' = placeIdx
                /\ verdicts' = Append(verdicts,
                       [place |-> place, duplicate |-> FALSE,
                        valid |-> Some(check.isValid)])
                /\ IF ~check.isValid
                   THEN /\ steps' = Append(steps, "validateLocation")
                        /\ allBusinesses' = Collect(allBusinesses, JsNull)
                        /\ outstanding' = outstanding
                        /\ pc' = "delay"
                   ELSE /\ steps' = steps \o << "validateLocation", "generateDescription" >>
                        /\ allBusinesses' = allBusinesses
                        /\ outstanding' = outstanding \cup {"generateDescription"}
                        /\ pc' = "genDescription"
    /\ UNCHANGED << municipality, call, pool, db, businessTypes, typeIdx, places,
                    isDuplicate, description, now, queryOutcome,
                    genOutcome, searchLog >>
    /\ UNCHANGED dbOps

\* AfterCheckDuplicate requesting the description and the keywords together
AfterCheckDuplicateParallel ==
    /\ pc = "checked"
    /\ IF isDuplicate
       THEN /\ verdicts' = Append(verdicts,
                   [place |-> place, duplicate |-> TRUE, valid |-> None])
            /\ allBusinesses' = Collect(allBusinesses, JsNull)
            /\ pc' = "delay"
            /\ UNCHANGED << locationCheck, steps, outstanding >>
       ELSE LET check == validateLocation(addressOf(place), municipality)
            IN  /\ locationCheck' = Some(check)
                /\ verdicts' = Append(verdicts,
                       [place |-> place, duplicate |-> FALSE,
                        valid |-> Some(check.isValid)])
                /\ IF ~check.isValid
                   THEN /\ steps' = Append(steps, "validateLocation")
                        /\ allBusinesses' = Collect(allBusinesses, JsNull)
                        /\ outstanding' = outstanding
                        /\ pc' = "delay"
                   ELSE /\ steps' = steps \o << "validateLocation", "generateDescription" >>
                        /\ allBusinesses' = allBusinesses
                        /\ outstanding' = outstanding \cup {"generateDescription", "generateKeywords"}
                        /\ pc' = "genDescription"
    /\ UNCHANGED << municipality, call, pool, db, businessTypes, typeIdx, places,
                    placeIdx, isDuplicate, description, now, queryOutcome,
                    genOutcome, searchLog >>
    /\ UNCHANGED dbOps

\* processBusiness after checkDuplicate: return null for a duplicate, else
\* validate the location, return null when invalid, else request the
\* description; a null result is not collected and the delay starts
AfterCheckDuplicate ==
    /\ pc = "checked"
    /\ IF isDuplicate
       THEN /\ verdicts' = Append(verdicts,
                   [place |-> place, duplicate |-> TRUE, valid |-> None])
            /\ allBusinesses' = Collect(allBusinesses, JsNull)
            /\ pc' = "delay"
            /\ UNCHANGED << locationCheck, steps, outstanding >>
       ELSE LET check == validateLocation(addressOf(place), municipality)
            IN  /\ locationCheck' = Some(check)
                /\ verdicts' = Append(verdicts,
                       [place |-> place, duplicate |-> FALSE,
                        valid |-> Some(check.isValid)])
                /\ IF ~check.isValid
                   THEN /\ steps' = Append(steps, "validateLocation")
                        /\ allBusinesses' = Collect(allBusinesses, JsNull)
                        /\ outstanding' = outstanding
                        /\ pc' = "delay"
                   ELSE /\ steps' = steps \o << "validateLocation", "generateDescription" >>
                        /\ allBusinesses' = allBusinesses
                        /\ outstanding' = outstanding \cup {"generateDescription"}
                        /\ pc' = "genDescription"
    /\ UNCHANGED << municipality, call, pool, db, businessTypes, typeIdx, places,
                    placeIdx, isDuplicate, description, now, queryOutcome,
                    genOutcome, searchLog >>
    /\ UNCHANGED dbOps

\* generateDescription replied: message.content[0].text; processBusiness
\* requests the keywords
DescriptionReturns ==
    /\ pc = "genDescription"
    /\ description' = JsString(DescriptionText)
    /\ genOutcome' = [genOutcome EXCEPT !.description = "ok"]
    /\ steps' = Append(steps, "generateKeywords")
    /\ pc' = "genKeywords"
    /\ UNCHANGED << municipality, call, pool, db, businessTypes, typeIdx, places,
                    placeIdx, allBusinesses, isDuplicate, locationCheck, now,
                    queryOutcome, searchLog, verdicts >>
    /\ outstanding' = (outstanding \ {"generateDescription"}) \cup {"generateKeywords"}
    /\ UNCHANGED dbOps

\* DescriptionFails giving the candidate up: no keywords, no record
DescriptionFailsAborts ==
    /\ pc = "genDescription"
    /\ description' = JsNull
    /\ genOutcome' = [genOutcome EXCEPT !.description = "error"]
    /\ pc' = "delay"
    /\ UNCHANGED << municipality, call, pool, db, businessTypes, typeIdx, places,
                    placeIdx, allBusinesses, isDuplicate, locationCheck, now,
                    steps, queryOutcome, searchLog, verdicts >>
    /\ outstanding' = outstanding \ {"generateDescription"}
    /\ UNCHANGED dbOps

\* generateDescription failed: the catch block returns null; processBusiness
\* requests the keywords
DescriptionFails ==
    /\ pc = "genDescription"
    /\ description' = JsNull
    /\ genOutcome' = [genOutcome EXCEPT !.description = "error"]
    /\ steps' = Append(steps, "generateKeywords")
    /\ pc' = "genKeywords"
    /\ UNCHANGED << municipality, call, pool, db, businessTypes, typeIdx, places,
                    placeIdx, allBusinesses, isDuplicate, locationCheck, now,
                    queryOutcome, searchLog, verdicts >>
    /\ outstanding' = (outstanding \ {"generateDescription"}) \cup {"generateKeywords"}
    /\ UNCHANGED dbOps

\* processBusiness after generateKeywords: the record literal is built, or
\* its slug expression raises; the record returned is collected and the
\* delay starts
Normalize(kws) ==
    IF NormalizeRaises(place)
    THEN /\ pc' = "raised"
         /\ allBusinesses' = allBusinesses
    ELSE /\ pc' = "delay"
         /\ allBusinesses' = Collect(allBusinesses,
                [t |-> "record",
                 record |-> BuildRecord(place, municipality, description, kws, now)])

\* generateKeywords replied: the text split on commas and trimmed
KeywordsReturns ==
    /\ pc = "genKeywords"
    /\ genOutcome' = [genOutcome EXCEPT !.keywords = "ok"]
    /\ Normalize(keywordsOf(KeywordsText))
    /\ UNCHANGED << municipality, call, pool, db, businessTypes, typeIdx, places,
                    placeIdx, isDuplicate, locationCheck, description, now, steps,
                    queryOutcome, searchLog, verdicts >>
    /\ outstanding' = outstanding \ {"generateKeywords"}
    /\ UNCHANGED dbOps

\* generateKeywords failed: the catch block returns []
KeywordsFails ==
    /\ pc = "genKeywords"
    /\ genOutcome' = [genOutcome EXCEPT !.keywords = "error"]
    /\ Normalize(<< >>)
    /\ UNCHANGED << municipality, call, pool, db, businessTypes, typeIdx, places,
                    placeIdx, isDuplicate, locationCheck, description, now, steps,
                    queryOutcome, searchLog, verdicts >>
    /\ outstanding' = outstanding \ {"generateKeywords"}
    /\ UNCHANGED dbOps

\* DelayElapses with a timer that never fires
DelayNeverElapses ==
    /\ pc = "delay"
    /\ UNCHANGED vars

\* the timer of the delay fired: the loop goes to the next candidate
DelayElapses ==
    /\ pc = "delay"
    /\ now' = now + 1
    /\ placeIdx' = placeIdx + 1
    /\ pc' = "loop"
    /\ UNCHANGED << municipality, call, pool, db, businessTypes, typeIdx, places,
                    allBusinesses, isDuplicate, locationCheck, description, steps,
                    queryOutcome, genOutcome, searchLog, verdicts >>
    /\ UNCHANGED << dbOps, outstanding >>

\* return allBusinesses
Return ==
    /\ pc = "loop" /\ placeIdx = Len(places) /\ typeIdx = Len(businessTypes)
    /\ pc' = "done"
    /\ UNCHANGED << municipality, call, pool, db, businessTypes, typeIdx, places,
                    placeIdx, allBusinesses, isDuplicate, locationCheck,
                    description, now, steps, queryOutcome, genOutcome, searchLog,
                    verdicts >>
    /\ UNCHANGED << dbOps, outstanding >>

Next ==
    \/ SearchBusinesses
    \/ SearchReturns
    \/ SearchFails
    \/ BeginCandidate
    \/ QueryReturns
    \/ QueryFails
    \/ AfterCheckDuplicate
    \/ DescriptionReturns
    \/ DescriptionFails
    \/ KeywordsReturns
    \/ KeywordsFails
    \/ DelayElapses
    \/ Return

Spec == Init /\ [][Next]_vars

\* every awaited reply arrives and every timer fires: the continuation that
\* is enabled is eventually run
SpecFair == Spec /\ WF_vars(Next)

----------------------------------------------------------------------------
(* Properties of the synchronous methods, checked under SpecPure.          *)

RecognizedPriceLabels == { priceLevelMap[i].key : i \in DOMAIN priceLevelMap }

\* C3: convertPriceLevel returns 0, 1, 2, 3, 4 for the labels free,
\* inexpensive, moderate, expensive, very-expensive, and null for an absent
\* or unrecognized label.
C3_PriceLevelMapping ==
    call.op = "convertPriceLevel" =>
        /\ \A i \in DOMAIN priceLevelMap :
               call.arg = Some(priceLevelMap[i].key) => call.ret = JsNumber(i - 1)
        /\ (call.arg = None \/ Get(call.arg) \notin RecognizedPriceLabels)
               => call.ret = JsNull

CategoryNames ==
    { categoryMap[i].value : i \in DOMAIN categoryMap } \cup { Services }
CategorizedTypes == { categoryMap[i].key : i \in DOMAIN categoryMap }

\* C4: categorizeType returns the table's category for every label of the
\* table, "Services" for an absent or unrecognized label, and so always a
\* member of the closed set of category names.
C4_CategoryClosedSet ==
    call.op = "categorizeType" =>
        /\ \A i \in DOMAIN categoryMap :
               call.arg = Some(categoryMap[i].key)
                   => call.ret = JsString(categoryMap[i].value)
        /\ (call.arg = None \/ Get(call.arg) \notin CategorizedTypes)
               => call.ret = JsString(Services)
        /\ call.ret \in { JsString(c) : c \in CategoryNames }

\* seg is raw without its leading and trailing white space
IsTrimOf(seg, raw) ==
    \E a, b \in 0..Len(raw) :
        /\ a + b <= Len(raw)
        /\ seg = SubSeq(raw, a + 1, Len(raw) - b)
        /\ \A i \in 1..a : raw[i] \in WhiteSpace
        /\ \A i \in (Len(raw) - b + 1)..Len(raw) : raw[i] \in WhiteSpace
        /\ seg # << >> => seg[1] \notin WhiteSpace /\ seg[Len(seg)] \notin WhiteSpace

\* seg is the trimmed text between the first and the second comma of s (to
\* the end of s when there is one comma), or empty when s has no comma
IsSecondSegmentOf(seg, s) ==
    LET commas == { i \in 1..Len(s) : s[i] = "," }
    IN  IF commas = {} THEN seg = << >>
        ELSE LET c1 == CHOOSE i \in commas : \A j \in commas : i <= j
                 later == { j \in commas : j > c1 }
                 c2 == IF later = {} THEN Len(s) + 1
                       ELSE CHOOSE i \in later : \A j \in later : i <= j
             IN  IsTrimOf(seg, SubSeq(s, c1 + 1, c2 - 1))

\* sub occurs in s when case is ignored
ContainsIgnoringCase(s, sub) ==
    \E off \in 0..Len(s) :
        /\ off + Len(sub) <= Len(s)
        /\ \A j \in 1..Len(sub) : LowerChar(s[off + j]) = LowerChar(sub[j])

\* sub occurs in s
Mentions(s, sub) ==
    \E off \in 0..Len(s) :
        /\ off + Len(sub) <= Len(s)
        /\ \A j \in 1..Len(sub) : s[off + j] = sub[j]

Paramus == <<"P", "a", "r", "a", "m", "u", "s">>

\* C5: validateLocation is valid exactly when the trimmed second
\* comma-separated segment contains the municipality name, case ignored;
\* the reason is null exactly when valid and otherwise names the detected
\* segment and the municipality ("Paramus" for the 50 Oak Ave address).
C5_ValidateLocation ==
    call.op = "validateLocation" =>
        LET r == call.ret
        IN  /\ IsSecondSegmentOf(r.detectedCity, call.arg)
            /\ r.isValid <=> ContainsIgnoringCase(r.detectedCity, municipality.name)
            /\ (r.reason = None) <=> r.isValid
            /\ ~r.isValid => /\ Mentions(Get(r.reason), r.detectedCity)
                             /\ Mentions(Get(r.reason), municipality.name)
            /\ (call.arg = Addr50Oak /\ municipality = FairLawn)
                   => ~r.isValid /\ Mentions(Get(r.reason), Paramus)

\* a valid address whose segment was trimmed and differs in case from the
\* municipality name
C5_Witness ==
    /\ call.op = "validateLocation"
    /\ call.ret.isValid
    /\ call.ret.detectedCity # municipality.name
    /\ \E i \in 1..Len(call.arg) : call.arg[i] = " "

\* C6 as stated: "123 Main St, Fair Lawn, NJ 07410, USA" is valid and the
\* detected segment is "Fair Lawn, NJ 07410".
C6_DetectedSegmentWithState ==
    (call.op = "validateLocation" /\ call.arg = Addr123Main /\ municipality = FairLawn)
        => /\ call.ret.isValid
           /\ call.ret.detectedCity = <<"F", "a", "i", "r", " ", "L", "a", "w", "n", ",", " ", "N", "J", " ", "0", "7", "4", "1", "0">>

\* C6 amended: "123 Main St, Fair Lawn, NJ 07410, USA" is valid and the
\* detected segment is "Fair Lawn".
C6_DetectedSegment ==
    (call.op = "validateLocation" /\ call.arg = Addr123Main /\ municipality = FairLawn)
        => /\ call.ret.isValid
           /\ call.ret.detectedCity = FairLawn.name

C6_Witness ==
    call.op = "validateLocation" /\ call.arg = Addr123Main /\ municipality = FairLawn

\* C10: the slug of every emitted record is non-empty, has only characters
\* of a-z, 0-9 and '-', and neither starts nor ends with '-'.
C10_SlugUrlSafe ==
    (call.op = "processBusiness" /\ call.ret.t = "record") =>
        LET slug == call.ret.record.slug
        IN  /\ slug # << >>
            /\ \A i \in 1..Len(slug) : slug[i] \in AsciiLower \cup Digits \cup {"-"}
            /\ slug[1] # "-"
            /\ slug[Len(slug)] # "-"

----------------------------------------------------------------------------
(* Properties of a run of scrapeBusinessesByTypes, checked under Spec.     *)

StepOrder ==
    << "checkDuplicate", "validateLocation", "generateDescription", "generateKeywords" >>
GenerationSteps == { "generateDescription", "generateKeywords" }

\* the checks rejected the current candidate
Rejected ==
    \/ isDuplicate
    \/ IsSome(locationCheck) /\ ~Get(locationCheck).isValid

\* C1: for every candidate the duplicate check comes before the location
\* validation, which comes before any generation call, and no generation
\* call is made for a candidate found duplicate or out of area.
C1_ChecksBeforeGeneration ==
    /\ \E n \in 0..Len(StepOrder) : steps = SubSeq(StepOrder, 1, n)
    /\ Rejected => /\ \A i \in DOMAIN steps : steps[i] \notin GenerationSteps
                   /\ genOutcome = NoGeneration

\* an out-of-area candidate was skipped after both checks, without generation
C1_Witness ==
    /\ pc = "delay"
    /\ ~isDuplicate
    /\ IsSome(locationCheck) /\ ~Get(locationCheck).isValid
    /\ steps = << "checkDuplicate", "validateLocation" >>

RECURSIVE Flatten(_)
Flatten(lists) ==
    IF lists = << >> THEN << >> ELSE Head(lists) \o Flatten(Tail(lists))

\* the candidates in discovery order: term by term, then as each search
\* listed them
Discovered == Flatten([i \in DOMAIN searchLog |-> searchLog[i].found])

IsSurvivor(v) == ~v.duplicate /\ v.valid = Some(TRUE)
Survivors == SelectSeq(verdicts, IsSurvivor)

Has(log, step) == \E i \in DOMAIN log : log[i] = step

\* C7: checkDuplicate never raises and fails open: false without a pool (and
\* no query), false when the query fails, else true exactly when the query
\* finds a row; after a failed query the candidate goes on to location
\* validation and enrichment.
C7_DuplicateCheckFailsOpen ==
    /\ pc = "checked" =>
           /\ ~pool => (~isDuplicate /\ queryOutcome = "none")
           /\ pool => queryOutcome \in {"ok", "error"}
           /\ queryOutcome = "error" => ~isDuplicate
           /\ queryOutcome = "ok" =>
                  (isDuplicate <=> (IsSome(place.id) /\ Get(place.id) \in db))
    /\ (queryOutcome = "error" /\ pc \in {"genDescription", "genKeywords", "delay", "raised"})
           => /\ Has(steps, "validateLocation")
              /\ Get(locationCheck).isValid => Has(steps, "generateDescription")
    /\ pc = "raised" => Has(steps, "generateKeywords")

\* a stored place whose existence query failed was enriched and emitted
C7_Witness ==
    /\ pc = "delay"
    /\ queryOutcome = "error"
    /\ IsSome(place.id) /\ Get(place.id) \in db
    /\ steps = StepOrder
    /\ allBusinesses # << >>
    /\ allBusinesses[Len(allBusinesses)].google_place_id = Get(place.id)

\* C8: a failed search returns the empty list and never raises: the term
\* contributes no candidates, every later term is still searched, and the
\* records of the other terms are all kept and returned.
C8_SearchFailureContained ==
    /\ \A i \in DOMAIN searchLog :
           searchLog[i].outcome = "error" => searchLog[i].found = << >>
    /\ (pc = "loop" /\ searchLog # << >> /\ searchLog[Len(searchLog)].outcome = "error")
           => places = << >>
    /\ pc = "raised" => /\ searchLog[Len(searchLog)].outcome = "ok"
                        /\ Has(steps, "generateKeywords")
    /\ pc \in {"loop", "search", "done"} => Len(allBusinesses) = Len(Survivors)
    /\ pc = "done" =>
           /\ Len(searchLog) = Len(businessTypes)
           /\ \A i \in DOMAIN searchLog :
                  /\ searchLog[i].textQuery = textQueryOf(businessTypes[i], municipality)
                  /\ searchLog[i].outcome \in {"ok", "error"}

\* the second of three searches failed; the record found before it and the
\* one found after it were both returned
C8_Witness ==
    /\ pc = "done"
    /\ Len(searchLog) = 3
    /\ searchLog[2].outcome = "error"
    /\ searchLog[1].found # << >> /\ searchLog[3].found # << >>
    /\ Len(allBusinesses) = 2

\* C9: for a candidate (with an identifier) that reaches enrichment the two
\* generation calls degrade independently: a failed description gives a null
\* description, a failed keyword call an empty keyword list, the other
\* result is kept, the record is emitted, and exactly two generation calls
\* are made in all four combinations.
C9_EnrichmentDegradesIndependently ==
    /\ (pc = "delay" /\ Has(steps, "generateDescription")) =>
           LET r == allBusinesses[Len(allBusinesses)]
           IN  /\ steps = StepOrder
               /\ genOutcome.description \in {"ok", "error"}
               /\ genOutcome.keywords \in {"ok", "error"}
               /\ Len(allBusinesses) = Len(Survivors)
               /\ r.google_place_id = Get(place.id)
               /\ genOutcome.description = "error" => r.description = JsNull
               /\ genOutcome.description = "ok" => r.description = JsString(DescriptionText)
               /\ genOutcome.keywords = "error" => r.keywords = << >>
               /\ genOutcome.keywords = "ok" => r.keywords = keywordsOf(KeywordsText)
    /\ (pc \in {"delay", "raised"} /\ ~Rejected /\ IsSome(locationCheck))
           => steps = StepOrder
    /\ pc = "raised" => ~IsSome(place.id)

\* the description failed, the keywords did not, and the record was emitted
C9_Witness ==
    /\ pc = "delay"
    /\ genOutcome = [description |-> "error", keywords |-> "ok"]
    /\ allBusinesses # << >>
    /\ allBusinesses[Len(allBusinesses)].description = JsNull
    /\ allBusinesses[Len(allBusinesses)].keywords # << >>

\* the batch found the one candidate Joe's Bakery, which was not a duplicate
OnlyJoesBakeryIngested ==
    /\ pc = "done"
    /\ Discovered = << JoesBakery >>
    /\ Len(verdicts) = 1 /\ ~verdicts[1].duplicate

IsPrefixOf(pre, s) == Len(pre) <= Len(s) /\ SubSeq(s, 1, Len(pre)) = pre
IsSuffixOf(suf, s) ==
    Len(suf) <= Len(s) /\ SubSeq(s, Len(s) - Len(suf) + 1, Len(s)) = suf

FoodAndDining == <<"F", "o", "o", "d", " ", "&", " ", "D", "i", "n", "i", "n", "g">>

\* C11 as stated: ingesting the non-duplicate candidate "abcd1234xyz",
\* "Joe's Bakery", "10 Main St, Fair Lawn, NJ 07410, USA", "bakery" yields
\* exactly one record whose slug starts with "joes-bakery-" and ends with
\* "abcd1234", with category "Food & Dining" and status "pending".
C11_JoesBakerySlugJoes ==
    OnlyJoesBakeryIngested =>
        /\ Len(allBusinesses) = 1
        /\ IsPrefixOf(<<"j", "o", "e", "s", "-", "b", "a", "k", "e", "r", "y", "-">>, allBusinesses[1].slug)
        /\ IsSuffixOf(<<"a", "b", "c", "d", "1", "2", "3", "4">>, allBusinesses[1].slug)
        /\ allBusinesses[1].category = JsString(FoodAndDining)
        /\ allBusinesses[1].status = <<"p", "e", "n", "d", "i", "n", "g">>

\* C11 amended: the same ingestion yields exactly one record whose slug is
\* "joe-s-bakery-abcd1234" (the apostrophe becomes a hyphen), with category
\* "Food & Dining" and status "pending".
C11_JoesBakeryRecord ==
    OnlyJoesBakeryIngested =>
        /\ Len(allBusinesses) = 1
        /\ allBusinesses[1].slug = <<"j", "o", "e", "-", "s", "-", "b", "a", "k", "e", "r", "y", "-", "a", "b", "c", "d", "1", "2", "3", "4">>
        /\ IsPrefixOf(<<"j", "o", "e", "-", "s", "-", "b", "a", "k", "e", "r", "y", "-">>, allBusinesses[1].slug)
        /\ IsSuffixOf(<<"a", "b", "c", "d", "1", "2", "3", "4">>, allBusinesses[1].slug)
        /\ allBusinesses[1].category = JsString(FoodAndDining)
        /\ allBusinesses[1].status = <<"p", "e", "n", "d", "i", "n", "g">>

C11_Witness == OnlyJoesBakeryIngested /\ pool /\ allBusinesses # << >>

----------------------------------------------------------------------------
(* Properties of the record normalisation, checked under SpecPure.         *)

\* C12 as stated: two runs of processBusiness on the same candidate with the
\* same enrichment replies, at any two points in time, give identical slugs
\* and records equal in every field.
C12_RecordsIdentical ==
    call.op = "processBusinessAgain" =>
        /\ call.ret.record.slug = call.first.slug
        /\ call.ret.record = call.first

\* C12 amended: the two runs give identical slugs and records equal in every
\* field except scraped_at, which is the time of each run.
C12_RecordsIdenticalButTimestamp ==
    call.op = "processBusinessAgain" =>
        /\ call.ret.record.slug = call.first.slug
        /\ DOMAIN call.ret.record = DOMAIN call.first
        /\ \A f \in DOMAIN call.first \ {"scraped_at"} :
               call.ret.record[f] = call.first[f]

\* the second run was later than the first and stamped its record so
C12_Witness ==
    /\ call.op = "processBusinessAgain"
    /\ call.ret.record.scraped_at # call.first.scraped_at
    /\ call.arg.displayName # None

\* C14: a candidate with an identifier and a valid address that lacks any
\* set of the other fields gives a record, never an error: name "Unknown"
\* without a name, subcategory "business" and category "Services" without a
\* primary type, rating count 0 without one, null for the other absent
\* fields.
C14_MissingFieldsDefaulted ==
    (call.op = "processBusiness" /\ IsSome(call.arg.id)) =>
        /\ call.ret.t = "record"
        /\ LET p == call.arg
               r == call.ret.record
           IN  /\ p.displayName = None => r.name = <<"U", "n", "k", "n", "o", "w", "n">>
               /\ p.primaryType = None =>
                      /\ r.subcategory = <<"b", "u", "s", "i", "n", "e", "s", "s">>
                      /\ r.category = JsString(<<"S", "e", "r", "v", "i", "c", "e", "s">>)
               /\ p.userRatingCount = None => r.total_ratings = 0
               /\ p.priceLevel = None => r.price_level = JsNull
               /\ p.rating = None => r.rating = JsNull
               /\ p.location = None => (r.latitude = JsNull /\ r.longitude = JsNull)
               /\ p.regularOpeningHours = None => r.opening_hours = JsNull
               /\ p.nationalPhoneNumber = None => r.phone = JsNull
               /\ p.websiteUri = None => r.website = JsNull
               /\ p.googleMapsUri = None => r.google_maps_url = JsNull

\* a candidate lacking all ten optional fields gave a record
C14_Witness ==
    /\ call.op = "processBusiness"
    /\ call.arg = Without(FullPlace(municipality), OptionalFields)
    /\ call.ret.t = "record"
    /\ call.ret.record.name = <<"U", "n", "k", "n", "o", "w", "n">>

\* C15 as stated: city and state always equal the municipality's name and
\* state, and two candidates that pass location validation and differ only
\* in the text of their address give the same city, state and zip.
C15_AddressIndependent ==
    call.op = "processBusinessPair" =>
        /\ \A k \in 1..2 : /\ call.ret[k].city = municipality.name
                           /\ call.ret[k].state = municipality.state
        /\ call.ret[1].city = call.ret[2].city
        /\ call.ret[1].state = call.ret[2].state
        /\ call.ret[1].zip = call.ret[2].zip

\* C15 amended: city always equals the municipality's name and state its
\* state cut to the first 20 characters, so two such candidates give the
\* same city and state; the zip is text of the address (at most 10
\* characters of it) and may differ.
C15_CityStateForced ==
    call.op = "processBusinessPair" =>
        /\ \A k \in 1..2 :
               /\ call.ret[k].city = municipality.name
               /\ IsPrefixOf(call.ret[k].state, municipality.state)
               /\ Len(call.ret[k].state) =
                      (IF Len(municipality.state) < 20 THEN Len(municipality.state) ELSE 20)
               /\ Mentions(Get(call.arg[k].formattedAddress), call.ret[k].zip)
               /\ Len(call.ret[k].zip) <= 10
        /\ call.ret[1].city = call.ret[2].city
        /\ call.ret[1].state = call.ret[2].state

\* two candidates differing only in their address got different zips, under a
\* municipality whose state is longer than the record keeps
C15_Witness ==
    /\ call.op = "processBusinessPair"
    /\ call.ret[1].zip # call.ret[2].zip
    /\ call.ret[1].state # municipality.state

----------------------------------------------------------------------------
(* Properties of the run of scrapeBusinessesByTypes: delays, persistence,  *)
(* sequencing and termination.                                             *)

\* the candidates whose loop body, its delay included, is over
Finished == Len(Discovered) - Len(places) + placeIdx

CandidateSteps == { "query", "checked", "genDescription", "genKeywords" }

\* C13: a delay is taken after every candidate, emitted or skipped as a
\* duplicate or as out of area: the delays elapsed always number the
\* candidates whose loop body is over, so no step of a candidate and no search
\* of a term begins before the delay of the previous candidate has elapsed,
\* and a run that returns has taken as many delays as its searches returned
\* candidates.
C13_DelayAfterEveryCandidate ==
    /\ now = Finished
    /\ pc \in CandidateSteps \cup {"delay"} =>
           /\ placeIdx < Len(places)
           /\ Len(verdicts) \in {now, now + 1}
    /\ pc = "delay" => /\ Len(verdicts) = now + 1
                       /\ verdicts[Len(verdicts)].place = place
    /\ pc \in {"loop", "search", "done"} => Len(verdicts) = now
    /\ pc = "done" => now = Len(Discovered)

\* a run returned after a duplicate and an out-of-area candidate, two delays
C13_Witness ==
    /\ pc = "done"
    /\ now = 2
    /\ \E i \in DOMAIN verdicts : verdicts[i].duplicate
    /\ \E i \in DOMAIN verdicts : verdicts[i].valid = Some(FALSE)

\* C16 as stated: no two records of the list a run returns have the same
\* external identifier, also when two searches return the same place.
C16_NoTwoRecordsShareIdentifier ==
    pc = "done" =>
        \A i, j \in DOMAIN allBusinesses :
            i # j => allBusinesses[i].google_place_id # allBusinesses[j].google_place_id

\* C17: a run never changes the stored rows; the only statement it sends is
\* the existence query, and at most one per candidate.
C17_ReadOnlyPersistence ==
    /\ [][db' = db]_vars
    /\ [](/\ \A i \in DOMAIN dbOps : dbOps[i].statement = "SELECT"
          /\ \A i, j \in DOMAIN dbOps :
                 (dbOps[i].term = dbOps[j].term /\ dbOps[i].index = dbOps[j].index)
                     => i = j
          /\ Len(dbOps) <= Len(Discovered)
          /\ ~pool => dbOps = << >>)

\* a run over stored rows returned a record after two existence queries
C17_Witness ==
    /\ pc = "done"
    /\ db # {}
    /\ Len(dbOps) = 2
    /\ allBusinesses # << >>

Times(seq, x) == Cardinality({ i \in DOMAIN seq : seq[i] = x })

\* the external call a suspended run is waiting for
Awaited ==
    CASE pc = "search" -> {"search"}
      [] pc = "query" -> {"query"}
      [] pc = "genDescription" -> {"generateDescription"}
      [] pc = "genKeywords" -> {"generateKeywords"}
      [] OTHER -> {}

\* C18: at most one external call is outstanding, the one the run awaits;
\* there is one search request per term, at most one existence query and at
\* most one request of each generation per candidate, failed or not; between
\* candidates and between terms nothing is outstanding.
C18_StrictlySequential ==
    /\ Cardinality(outstanding) <= 1
    /\ outstanding = Awaited
    /\ Len(searchLog) = typeIdx
    /\ \A i \in DOMAIN searchLog :
           searchLog[i].textQuery = textQueryOf(businessTypes[i], municipality)
    /\ Cardinality({ i \in DOMAIN dbOps :
                       dbOps[i].term = typeIdx /\ dbOps[i].index = placeIdx + 1 }) <= 1
    /\ \A g \in GenerationSteps : Times(steps, g) <= 1
    /\ Times(steps, "checkDuplicate") <= 1
    /\ pc \in {"loop", "delay", "done", "raised"} => outstanding = {}

\* a later candidate awaits its keywords after its existence query and its
\* description request failed, each issued once
C18_Witness ==
    /\ pc = "genKeywords"
    /\ outstanding = {"generateKeywords"}
    /\ queryOutcome = "error"
    /\ genOutcome.description = "error"
    /\ now >= 1
    /\ Len(searchLog) = 2

\* C19: when every awaited call replies and every delay elapses, the run
\* ends: it returns or it raises; and it raises only on a candidate without
\* identifier, never on a failed search, existence query or generation.
C19_RunEnds ==
    /\ <>(pc \in {"done", "raised"})
    /\ [](pc = "raised" => place.id = None)

\* a run returned a record although a search, the last existence query and
\* both generation calls of the last candidate failed
C19_Witness ==
    /\ pc = "done"
    /\ \E i \in DOMAIN searchLog : searchLog[i].outcome = "error"
    /\ queryOutcome = "error"
    /\ genOutcome = [description |-> "error", keywords |-> "error"]
    /\ allBusinesses # << >>

\* C20 as stated: a candidate for which a generation call was issued gets a
\* record, and the record is in the result.
C20_GenerationNeverWasted ==
    (pc \in {"delay", "raised"} /\ Times(steps, "generateDescription") > 0) =>
        /\ pc = "delay"
        /\ allBusinesses # << >>
        /\ allBusinesses[Len(allBusinesses)].name = nameOf(place)

====
